---- MODULE Spec2Model ----
(***************************************************************************)
(* Model of the ingestion pipeline of src/app.py: the toolbox annotation   *)
(* parser (load_toolbox), the TEI document parser (parse_xml), the remote  *)
(* listers (get_toolbox_filenames, load_source), the catalog loader        *)
(* (load_data) and the per-item lookup (get_sermon).                       *)
(*                                                                         *)
(* Python strings that the code takes apart (file names, toolbox lines)    *)
(* are sequences of one-character strings.  Opaque strings (a response     *)
(* body, a page number) are TLA+ strings.  A Python dict is a function.    *)
(***************************************************************************)
EXTENDS Naturals, Sequences, FiniteSets

VARIABLES
    \* load_toolbox (src/app.py:74-102)
    lines, pos, cur_id, values, morph_info, tb_pc,
    \* parse_xml (src/app.py:53-72)
    px_fetch, px_result, px_pc,
    \* load_data / load_source (src/app.py:104-162) and get_sermon (201-211)
    pc, descriptors, src_i, toolbox_files_urls, listing_status, listing,
    elem_i, results, result, data, log, http,
    \* get_id_from_name (src/app.py:50-51)
    gi_name, gi_prefix, gi_title, gi_pc,
    \* get_toolbox_filenames (src/app.py:104-109)
    gt_fetch, gt_result, gt_pc

vars == << lines, pos, cur_id, values, morph_info, tb_pc,
           px_fetch, px_result, px_pc,
           pc, descriptors, src_i, toolbox_files_urls, listing_status, listing,
           elem_i, results, result, data, log, http,
           gi_name, gi_prefix, gi_title, gi_pc,
           gt_fetch, gt_result, gt_pc >>

tbVars == << lines, pos, cur_id, values, morph_info, tb_pc >>
pxVars == << px_fetch, px_result, px_pc >>
mainVars == << pc, descriptors, src_i, toolbox_files_urls, listing_status,
               listing, elem_i, results, result, data, log, http >>
giVars == << gi_name, gi_prefix, gi_title, gi_pc >>
gtVars == << gt_fetch, gt_result, gt_pc >>

----------------------------------------------------------------------------
(* Bounds *)

\* longest toolbox file, in lines
MaxLines == 5
\* longest document-repository listing, in entries
MaxEntries == 2
\* most page-break elements in a document
MaxPb == 3
\* longest file-name stem get_id_from_name is tried on, in characters
MaxStem == 3
\* longest annotation-repository listing get_toolbox_filenames is tried on
MaxRows == 2

----------------------------------------------------------------------------
(* Python values *)

\* None, where the other values are opaque strings (a page number)
None == "None"
\* None, where the other values are dicts or objects (a parse_xml result, a
\* response, a response body)
NoneObj == [None |-> TRUE]
\* the empty dict {}
EmptyDict == << >>
\* the empty str ''; also stands for cur_id = None, which `if cur_id` cannot
\* tell from '' (a \ref value is never empty, see SplitValue)
EmptyStr == << >>

\* d[k] = v
DictSet(d, k, v) ==
    [x \in (DOMAIN d) \cup {k} |-> IF x = k THEN v ELSE d[x]]

\* a | b : the keys of both, b's value where both have the key
DictMerge(a, b) ==
    [x \in (DOMAIN a) \cup (DOMAIN b) |-> IF x \in DOMAIN b THEN b[x] ELSE a[x]]

\* d.get(k): the value, or None
DictGet(d, k) == IF k \in DOMAIN d THEN d[k] ELSE None

----------------------------------------------------------------------------
(* Python str methods, on sequences of characters *)

\* s[i:].startswith(p), i counted from 1
StartsWithAt(s, p, i) ==
    /\ i + Len(p) - 1 <= Len(s)
    /\ SubSeq(s, i, i + Len(p) - 1) = p

\* s.startswith(p)
StartsWith(s, p) == StartsWithAt(s, p, 1)

\* s.endswith(p)
EndsWith(s, p) ==
    /\ Len(p) <= Len(s)
    /\ SubSeq(s, Len(s) - Len(p) + 1, Len(s)) = p

\* s.removesuffix(p)
RemoveSuffix(s, p) ==
    IF EndsWith(s, p) THEN SubSeq(s, 1, Len(s) - Len(p)) ELSE s

\* s.replace(old, new) for a non-empty old: every occurrence, left to
\* right, without overlap
RECURSIVE ReplaceFrom(_, _, _, _)
ReplaceFrom(s, old, new, i) ==
    IF i > Len(s) THEN << >>
    ELSE IF StartsWithAt(s, old, i)
         THEN new \o ReplaceFrom(s, old, new, i + Len(old))
         ELSE << s[i] >> \o ReplaceFrom(s, old, new, i + 1)

Replace(s, old, new) == ReplaceFrom(s, old, new, 1)

\* s.strip(): leading and trailing blanks removed
RECURSIVE LStrip(_)
LStrip(s) == IF s # << >> /\ Head(s) = " " THEN LStrip(Tail(s)) ELSE s

RECURSIVE RStrip(_)
RStrip(s) ==
    IF s # << >> /\ s[Len(s)] = " " THEN RStrip(SubSeq(s, 1, Len(s) - 1)) ELSE s

Strip(s) == LStrip(RStrip(s))

\* c in s
Contains(s, c) == \E i \in 1..Len(s) : s[i] = c

\* s.index(c), for a c that is in s
FirstIndex(s, c) ==
    CHOOSE i \in 1..Len(s) : s[i] = c /\ \A j \in 1..(i - 1) : s[j] # c

\* s.split(' ', 1)[0] and [1], for an s that holds a blank
SplitMarker(s) == SubSeq(s, 1, FirstIndex(s, " ") - 1)
SplitValue(s) == SubSeq(s, FirstIndex(s, " ") + 1, Len(s))

----------------------------------------------------------------------------
(* load_toolbox: the line loop *)

\* the literal '\\ref'
RefMarker == << "\\", "r", "e", "f" >>

\* not (not line.startswith('\\') or ' ' not in line), line already stripped
IsMarkerLine(line) == StartsWith(line, << "\\" >>) /\ Contains(line, " ")

\* the body of `for line in lines`, on the loop's locals
\* st = [cur_id, values, morph_info]
ToolboxStep(st, raw) ==
    LET line == Strip(raw) IN
    IF ~IsMarkerLine(line)
    THEN [cur_id |-> st.cur_id,
          values |-> EmptyDict,
          morph_info |-> IF st.cur_id # EmptyStr
                         THEN DictSet(st.morph_info, st.cur_id, st.values)
                         ELSE st.morph_info]
    ELSE LET marker == SplitMarker(line)
             value == SplitValue(line)
         IN [cur_id |-> IF marker = RefMarker THEN value ELSE st.cur_id,
             values |-> DictSet(st.values, marker, value),
             morph_info |-> st.morph_info]

\* the locals before the loop
ToolboxStart == [cur_id |-> EmptyStr, values |-> EmptyDict, morph_info |-> EmptyDict]

\* the locals after the loop has run over ls
RECURSIVE ToolboxLoop(_, _)
ToolboxLoop(st, ls) ==
    IF ls = << >> THEN st ELSE ToolboxLoop(ToolboxStep(st, Head(ls)), Tail(ls))

\* the toolbox lines the model draws files from
LineRefA == << "\\", "r", "e", "f", " ", "a" >>
LineRefB == << " ", "\\", "r", "e", "f", " ", "b", " " >>
LineTx1 == << "\\", "t", "x", " ", "1" >>
LineTx2 == << "\\", "t", "x", " ", "2", " ", "3" >>
LineFt == << "\\", "f", "t" >>
LineBlank == << >>

ToolboxLines == { LineRefA, LineRefB, LineTx1, LineTx2, LineFt, LineBlank }

RECURSIVE SeqsUpTo(_, _)
SeqsUpTo(S, n) ==
    IF n = 0 THEN { << >> }
    ELSE LET shorter == SeqsUpTo(S, n - 1)
         IN shorter \cup { Append(s, x) : s \in { t \in shorter : Len(t) = n - 1 }, x \in S }

ToolboxFiles == SeqsUpTo(ToolboxLines, MaxLines)

\* the variables of the other functions, while load_toolbox runs alone
PxIdle == px_fetch = NoneObj /\ px_result = NoneObj /\ px_pc = "idle"
MainIdle ==
    /\ pc = "idle" /\ descriptors = << >> /\ src_i = 0
    /\ toolbox_files_urls = EmptyDict /\ listing_status = << >> /\ listing = << >>
    /\ elem_i = 0 /\ results = << >> /\ result = << >> /\ data = NoneObj
    /\ log = {} /\ http = NoneObj
GiIdle == gi_name = << >> /\ gi_prefix = << >> /\ gi_title = << >> /\ gi_pc = "idle"
GtIdle == gt_fetch = NoneObj /\ gt_result = EmptyDict /\ gt_pc = "idle"
TbIdle ==
    /\ lines = << >> /\ pos = 0 /\ cur_id = EmptyStr /\ values = EmptyDict
    /\ morph_info = EmptyDict /\ tb_pc = "idle"

InitToolbox ==
    /\ lines \in ToolboxFiles
    /\ pos = 1
    /\ cur_id = ToolboxStart.cur_id
    /\ values = ToolboxStart.values
    /\ morph_info = ToolboxStart.morph_info
    /\ tb_pc = "loop"
    /\ PxIdle /\ MainIdle /\ GiIdle /\ GtIdle

\* one pass of the loop body
ToolboxLine ==
    /\ tb_pc = "loop" /\ pos <= Len(lines)
    /\ LET st == ToolboxStep([cur_id |-> cur_id, values |-> values,
                              morph_info |-> morph_info], lines[pos])
       IN /\ cur_id' = st.cur_id
          /\ values' = st.values
          /\ morph_info' = st.morph_info
    /\ pos' = pos + 1
    /\ UNCHANGED << lines, tb_pc, pxVars, mainVars, giVars, gtVars >>

\* return {'morph': morph_info}
ToolboxReturn ==
    /\ tb_pc = "loop" /\ pos > Len(lines)
    /\ tb_pc' = "returned"
    /\ UNCHANGED << lines, pos, cur_id, values, morph_info, pxVars, mainVars, giVars, gtVars >>

NextToolbox == ToolboxLine \/ ToolboxReturn

SpecToolbox == InitToolbox /\ [][NextToolbox]_vars

----------------------------------------------------------------------------
(* parse_xml *)

\* bool(response): requests.Response.__bool__ is Response.ok, which is
\* false for the statuses raise_for_status() raises on (400..599)
Truthy(response) == ~(response.status_code >= 400 /\ response.status_code < 600)

\* the attrib of a pb element: {} or {'n': ...}
PbAttribs == { EmptyDict, [n |-> "i"], [n |-> "v"] }

\* a response body: whether ET.fromstring accepts it, and the pb elements
\* root.findall(".//{http://www.tei-c.org/ns/1.0}pb") finds, in document order
Bodies ==
    { [wellformed |-> TRUE, pb |-> p] : p \in SeqsUpTo(PbAttribs, MaxPb) }
        \cup { [wellformed |-> FALSE, pb |-> << >>] }

Statuses == { 200, 204, 404, 500 }

\* what requests.get(url) does: raises a RequestException, or returns a response
Responses == [kind : {"response"}, status_code : Statuses, text : Bodies]
RequestFailed == [kind |-> "RequestException"]
Fetches == { RequestFailed } \cup Responses

\* parse_xml(url), given what the fetch of url does.  exc names the
\* exception that leaves parse_xml, "none" when it returns value
parse_xml(fetch) ==
    IF fetch.kind = "RequestException"
    THEN [exc |-> "none", value |-> NoneObj, logged |-> {"error: fetching file"}]
    ELSE LET response == fetch
             pages == IF response.text.wellformed THEN response.text.pb ELSE << >>
             logged == IF response.text.wellformed THEN {} ELSE {"error: parsing file"}
         IN IF /\ Len(pages) > 0
               /\ ("n" \notin DOMAIN pages[1] \/ "n" \notin DOMAIN pages[Len(pages)])
            THEN [exc |-> "KeyError", value |-> NoneObj, logged |-> logged]
            ELSE [exc |-> "none",
                  value |-> [firstPage |-> IF Len(pages) > 0 THEN pages[1].n ELSE None,
                             lastPage |-> IF Len(pages) > 0 THEN pages[Len(pages)].n ELSE None,
                             text |-> IF Truthy(response) THEN response.text ELSE NoneObj],
                  logged |-> logged]

InitParseXml ==
    /\ px_fetch \in Fetches
    /\ px_result = NoneObj
    /\ px_pc = "call"
    /\ TbIdle /\ MainIdle /\ GiIdle /\ GtIdle

\* parse_xml returns
ParseXmlReturn ==
    /\ px_pc = "call"
    /\ parse_xml(px_fetch).exc = "none"
    /\ px_result' = parse_xml(px_fetch).value
    /\ px_pc' = "returned"
    /\ UNCHANGED << px_fetch, tbVars, mainVars, giVars, gtVars >>

\* an exception leaves parse_xml
ParseXmlRaise ==
    /\ px_pc = "call"
    /\ parse_xml(px_fetch).exc # "none"
    /\ px_result' = NoneObj
    /\ px_pc' = parse_xml(px_fetch).exc
    /\ UNCHANGED << px_fetch, tbVars, mainVars, giVars, gtVars >>

NextParseXml == ParseXmlReturn \/ ParseXmlRaise

SpecParseXml == InitParseXml /\ [][NextParseXml]_vars

\* C8: whenever parse_xml receives an HTTP response (whatever its status
\* code, well-formed body or not), the record it returns has the raw
\* response body as its text, and a malformed body gives
\* firstPage = lastPage = None with the text kept.
C8_TextIsResponseBody ==
    (px_pc = "returned" /\ px_fetch.kind = "response") =>
        /\ px_result # NoneObj
        /\ px_result.text = px_fetch.text
        /\ (~px_fetch.text.wellformed =>
                px_result.firstPage = None /\ px_result.lastPage = None)

----------------------------------------------------------------------------
(* get_id_from_name *)

DotXml == << ".", "x", "m", "l" >>
DotTxt == << ".", "t", "x", "t" >>
Xml == << "x", "m", "l" >>
Underscore == << "_" >>
Blank == << " " >>
\* f"prefix_" has no replacement field: it is the literal 'prefix_'
PrefixLiteral == << "p", "r", "e", "f", "i", "x", "_" >>

\* name.removesuffix('.xml').replace(f"prefix_", "").replace('_', ' ')
get_id_from_name(name, prefix) ==
    Replace(Replace(RemoveSuffix(name, DotXml), PrefixLiteral, << >>), Underscore, Blank)

\* the names and collection names get_id_from_name is tried on
StemChars == { "c", "a", "_" }
TitleNames ==
    { stem \o DotXml : stem \in SeqsUpTo(StemChars, MaxStem) }
        \cup { PrefixLiteral \o << "a" >> \o DotXml }
TitlePrefixes == { << "c" >>, << "c", "a" >> }

InitTitle ==
    /\ gi_name \in TitleNames
    /\ gi_prefix \in TitlePrefixes
    /\ gi_title = << >>
    /\ gi_pc = "call"
    /\ TbIdle /\ PxIdle /\ MainIdle /\ GtIdle

\* title = get_id_from_name(elem['name'], repo)
GetIdFromName ==
    /\ gi_pc = "call"
    /\ gi_title' = get_id_from_name(gi_name, gi_prefix)
    /\ gi_pc' = "returned"
    /\ UNCHANGED << gi_name, gi_prefix, tbVars, pxVars, mainVars, gtVars >>

NextTitle == GetIdFromName

SpecTitle == InitTitle /\ [][NextTitle]_vars

\* the title the data model describes: the extension stripped, the
\* collection-name prefix (the collection name and its underscore) removed,
\* the remaining underscores turned into blanks
DescribedTitle(name, prefix) ==
    Replace(Replace(RemoveSuffix(name, DotXml), prefix \o Underscore, << >>),
            Underscore, Blank)

\* C10: for every listed filename and collection name, the title
\* get_id_from_name computes is the filename with .xml removed, the
\* collection-name prefix removed and every remaining underscore replaced
\* by a space.
C10_TitleStripsCollectionPrefix ==
    gi_pc = "returned" => gi_title = DescribedTitle(gi_name, gi_prefix)

----------------------------------------------------------------------------
(* The remote repositories, as load_data sees them *)

\* file names of the document repository
NameA == << "a" >> \o DotXml
NameAA == << "a" >> \o DotXml \o DotXml
NameAxml == << "a" >> \o Xml
NameCA == << "c", "_", "a" >> \o DotXml
NameTxt == << "a" >> \o DotTxt
DocNames == { NameA, NameAA, NameAxml, NameCA, NameTxt }

\* what fetching a document's download_url gives
DocPages == [wellformed |-> TRUE, pb |-> << [n |-> "i"], [n |-> "v"] >>]
DocNoN == [wellformed |-> TRUE, pb |-> << EmptyDict >>]
DocNotFound == [wellformed |-> FALSE, pb |-> << >>]
DocPagesFetch == [kind |-> "response", status_code |-> 200, text |-> DocPages]
DocFetches ==
    { RequestFailed,
      DocPagesFetch,
      [kind |-> "response", status_code |-> 200, text |-> DocNoN],
      [kind |-> "response", status_code |-> 404, text |-> DocNotFound] }

\* a row of the document listing: its name, and its download_url, which
\* stands for what a fetch of it gives
DocRows == [name : DocNames, download_url : DocFetches]

\* a listing response body: a JSON list of rows, a JSON object (GitHub's
\* {"message": ...} error body) or no JSON at all
JsonList(rows) == [json |-> "list", rows |-> rows]
JsonObject == [json |-> "object", rows |-> << >>]
JsonInvalid == [json |-> "invalid", rows |-> << >>]

ListingStatuses == { 200, 204, 404 }

\* the document repositories: c-TEI holds any listing of up to MaxEntries
\* rows, cd-TEI is empty or holds one document
DocListingBodies(repo) ==
    IF repo = << "c" >>
    THEN { JsonList(rows) : rows \in SeqsUpTo(DocRows, MaxEntries) }
             \cup { JsonObject, JsonInvalid }
    ELSE { JsonList(<< >>),
           JsonList(<< [name |-> NameA, download_url |-> DocPagesFetch] >>),
           JsonObject }

DocListingFetches(repo) ==
    { RequestFailed } \cup
    [kind : {"response"}, status_code : ListingStatuses, text : DocListingBodies(repo)]

\* the annotation repository's listing
ToolboxListingFetches ==
    { RequestFailed } \cup
    [kind : {"response"}, status_code : ListingStatuses,
     text : { JsonList(<< >>),
              JsonList(<< [name |-> << "a" >> \o DotTxt, download_url |-> "a.txt" ] >>),
              JsonList(<< [name |-> << "a" >> \o DotTxt, download_url |-> None ] >>),
              JsonObject, JsonInvalid }]

\* what fetching an annotation file gives: its lines (response.text.splitlines())
ToolboxFetches ==
    { RequestFailed } \cup
    [kind : {"response"}, status_code : { 200 },
     text : { << >>, << LineRefA, LineTx1, LineBlank >> }]

\* the descriptor file (json.load of DATA_PATH)
DescC == [id |-> << "c" >>, title |-> "T1", description |-> "D1"]
DescCD == [id |-> << "c", "_", "d" >>, title |-> "T2", description |-> "D2"]
DataFiles == { << DescC >>, << DescCD >>, << DescC, DescCD >> }

----------------------------------------------------------------------------
(* load_toolbox, get_toolbox_filenames *)

\* load_toolbox with `if not url: return {}` returning {'morph': {}} instead
load_toolbox_empty_morph(url, fetch) ==
    IF url = None
    THEN [value |-> [morph |-> EmptyDict], logged |-> {}]
    ELSE IF fetch.kind = "RequestException"
         THEN [value |-> EmptyDict, logged |-> {"error: fetching file"}]
         ELSE [value |-> [morph |-> ToolboxLoop(ToolboxStart, fetch.text).morph_info],
               logged |-> {}]

\* load_toolbox(url), given what the fetch of url gives
load_toolbox(url, fetch) ==
    IF url = None
    THEN [value |-> EmptyDict, logged |-> {}]
    ELSE IF fetch.kind = "RequestException"
         THEN [value |-> EmptyDict, logged |-> {"error: fetching file"}]
         ELSE [value |-> [morph |-> ToolboxLoop(ToolboxStart, fetch.text).morph_info],
               logged |-> {}]

\* { row['name']: row['download_url'] for row in rows }
RECURSIVE RowsToDict(_)
RowsToDict(rows) ==
    IF rows = << >> THEN EmptyDict
    ELSE LET last == rows[Len(rows)]
         IN DictSet(RowsToDict(SubSeq(rows, 1, Len(rows) - 1)), last.name, last.download_url)

\* response.json(), then a loop over it that reads row['name']
JsonExc(body) ==
    CASE body.json = "invalid" -> "JSONDecodeError"
      [] body.json = "object" -> "TypeError"
      [] OTHER -> "none"

\* get_toolbox_filenames(gh_api_url), given what the request gives
get_toolbox_filenames(fetch) ==
    IF fetch.kind = "RequestException"
    THEN [exc |-> "RequestException", value |-> EmptyDict]
    ELSE IF Truthy(fetch) /\ fetch.status_code # 200
         THEN [exc |-> "none", value |-> EmptyDict]
         ELSE IF JsonExc(fetch.text) # "none"
              THEN [exc |-> JsonExc(fetch.text), value |-> EmptyDict]
              ELSE [exc |-> "none", value |-> RowsToDict(fetch.text.rows)]

\* the listing responses get_toolbox_filenames is tried on
ListerRows ==
    [name : { << "a" >> \o DotTxt, << "c", "_", "a" >> \o DotTxt },
     download_url : { "url", None }]
ListerFetches ==
    { RequestFailed } \cup
    [kind : {"response"}, status_code : Statuses,
     text : { JsonList(rows) : rows \in SeqsUpTo(ListerRows, MaxRows) }
                \cup { JsonObject, JsonInvalid }]

InitLister ==
    /\ gt_fetch \in ListerFetches
    /\ gt_result = EmptyDict
    /\ gt_pc = "call"
    /\ TbIdle /\ PxIdle /\ MainIdle /\ GiIdle

\* get_toolbox_filenames returns
ListerReturn ==
    /\ gt_pc = "call"
    /\ get_toolbox_filenames(gt_fetch).exc = "none"
    /\ gt_result' = get_toolbox_filenames(gt_fetch).value
    /\ gt_pc' = "returned"
    /\ UNCHANGED << gt_fetch, tbVars, pxVars, mainVars, giVars >>

\* an exception leaves get_toolbox_filenames
ListerRaise ==
    /\ gt_pc = "call"
    /\ get_toolbox_filenames(gt_fetch).exc # "none"
    /\ gt_pc' = get_toolbox_filenames(gt_fetch).exc
    /\ UNCHANGED << gt_fetch, gt_result, tbVars, pxVars, mainVars, giVars >>

NextLister == ListerReturn \/ ListerRaise

SpecLister == InitLister /\ [][NextLister]_vars

\* C2: for every listing response whose HTTP status is not 200 (404
\* included), get_toolbox_filenames returns the empty mapping and raises
\* no error.
C2_FailedListingGivesEmptyMapping ==
    (gt_pc # "call" /\ gt_fetch.kind = "response" /\ gt_fetch.status_code # 200) =>
        (gt_pc = "returned" /\ gt_result = EmptyDict)

----------------------------------------------------------------------------
(* load_data, load_source, get_sermon *)

\* source['id'].replace('_', ''), the repo argument of load_source
Repo(source) == Replace(source.id, Underscore, << >>)

\* the Item load_source appends for elem
Item(elem, repo, xml_info, morph) ==
    DictMerge(DictMerge([id |-> Replace(elem.name, DotXml, << >>),
                         title |-> get_id_from_name(elem.name, repo)],
                        xml_info),
              morph)

\* if not elem['name'].endswith('xml'): continue
IsListedDocument(elem) == EndsWith(elem.name, Xml)

\* toolbox_files_urls.get(elem['name'].replace('.xml', '.txt'))
ToolboxUrl(urls, elem) == DictGet(urls, Replace(elem.name, DotXml, DotTxt))

\* an uncaught exception ends the interpreter with a traceback
Traceback(exc) == { "traceback: " \o exc }

Init ==
    /\ pc = "for_source"
    /\ descriptors \in DataFiles
    /\ src_i = 0
    /\ toolbox_files_urls = EmptyDict
    /\ listing_status = << >>
    /\ listing = << >>
    /\ elem_i = 0
    /\ results = << >>
    /\ result = << >>
    /\ data = NoneObj
    /\ log = {}
    /\ http = NoneObj
    /\ TbIdle /\ PxIdle /\ GiIdle /\ GtIdle

\* load_data: `for source in data` takes the next descriptor and calls
\* load_source
NextSource ==
    /\ pc = "for_source" /\ src_i < Len(descriptors)
    /\ src_i' = src_i + 1
    /\ results' = << >>
    /\ pc' = "get_toolbox_filenames"
    /\ UNCHANGED << descriptors, toolbox_files_urls, listing_status, listing, elem_i,
                    result, data, log, http, tbVars, pxVars, giVars, gtVars >>

\* load_source: toolbox_files_urls = get_toolbox_filenames(TOOLBOX_FILES)
GetToolboxFilenames ==
    /\ pc = "get_toolbox_filenames"
    /\ \E fetch \in ToolboxListingFetches :
          LET r == get_toolbox_filenames(fetch) IN
          IF r.exc # "none"
          THEN /\ pc' = "crashed"
               /\ log' = log \cup Traceback(r.exc)
               /\ UNCHANGED toolbox_files_urls
          ELSE /\ pc' = "list_documents"
               /\ toolbox_files_urls' = r.value
               /\ UNCHANGED log
    /\ UNCHANGED << descriptors, src_i, listing_status, listing, elem_i, results,
                    result, data, http, tbVars, pxVars, giVars, gtVars >>

\* load_source: the request for the document repository's listing, the
\* status test and response.json()
ListDocuments ==
    /\ pc = "list_documents"
    /\ \E fetch \in DocListingFetches(Repo(descriptors[src_i])) :
          IF fetch.kind = "RequestException"
          THEN /\ pc' = "crashed"
               /\ log' = log \cup Traceback("RequestException")
               /\ UNCHANGED << listing_status, listing, elem_i >>
          ELSE /\ listing_status' = Append(listing_status, fetch.status_code)
               /\ IF Truthy(fetch) /\ fetch.status_code # 200
                  THEN /\ pc' = "exited"
                       /\ log' = log \cup {"error: loading sources"}
                       /\ UNCHANGED << listing, elem_i >>
                  ELSE IF JsonExc(fetch.text) # "none"
                       THEN /\ pc' = "crashed"
                            /\ log' = log \cup Traceback(JsonExc(fetch.text))
                            /\ UNCHANGED << listing, elem_i >>
                       ELSE /\ pc' = "for_elem"
                            /\ listing' = fetch.text.rows
                            /\ elem_i' = 1
                            /\ UNCHANGED log
    /\ UNCHANGED << descriptors, src_i, toolbox_files_urls, results, result, data,
                    http, tbVars, pxVars, giVars, gtVars >>

\* load_source: one pass of `for elem in response.json()`
ProcessElem ==
    /\ pc = "for_elem" /\ elem_i <= Len(listing)
    /\ LET elem == listing[elem_i] IN
       IF ~IsListedDocument(elem)
       THEN /\ elem_i' = elem_i + 1
            /\ UNCHANGED << pc, results, log >>
       ELSE \E tfetch \in ToolboxFetches :
            LET morph == load_toolbox(ToolboxUrl(toolbox_files_urls, elem), tfetch)
                xml == parse_xml(elem.download_url)
            IN IF xml.exc # "none"
               THEN /\ pc' = "crashed"
                    /\ log' = log \cup morph.logged \cup xml.logged \cup Traceback(xml.exc)
                    /\ UNCHANGED << elem_i, results >>
               ELSE /\ results' = IF xml.value # NoneObj
                                  THEN Append(results,
                                              Item(elem, Repo(descriptors[src_i]),
                                                   xml.value, morph.value))
                                  ELSE results
                    /\ log' = log \cup morph.logged \cup xml.logged
                                  \cup (IF morph.value = EmptyDict
                                        THEN {"warning: no morph info"} ELSE {})
                                  \cup (IF xml.value = NoneObj
                                        THEN {"warning: no XML info"} ELSE {})
                    /\ elem_i' = elem_i + 1
                    /\ UNCHANGED pc
    /\ UNCHANGED << descriptors, src_i, toolbox_files_urls, listing_status, listing,
                    result, data, http, tbVars, pxVars, giVars, gtVars >>

\* load_source returns results; load_data appends the collection
SourceReturn ==
    /\ pc = "for_elem" /\ elem_i > Len(listing)
    /\ result' = Append(result, [metadata |-> descriptors[src_i], sermons |-> results])
    /\ pc' = "for_source"
    /\ toolbox_files_urls' = EmptyDict
    /\ listing' = << >>
    /\ elem_i' = 0
    /\ results' = << >>
    /\ UNCHANGED << descriptors, src_i, listing_status, data, log, http,
                    tbVars, pxVars, giVars, gtVars >>

\* load_data returns: data and data_index are bound and the app serves
LoadDataReturn ==
    /\ pc = "for_source" /\ src_i = Len(descriptors)
    /\ data' = result
    /\ pc' = "serving"
    /\ UNCHANGED << descriptors, src_i, toolbox_files_urls, listing_status, listing,
                    elem_i, results, result, log, http, tbVars, pxVars, giVars, gtVars >>

\* data_index = {row['metadata']['id']: row for row in data}
RECURSIVE DataIndex(_)
DataIndex(rows) ==
    IF rows = << >> THEN EmptyDict
    ELSE LET last == rows[Len(rows)]
         IN DictSet(DataIndex(SubSeq(rows, 1, Len(rows) - 1)), last.metadata.id, last)

\* get_sermon(source_id, sermon_id): the first sermon with the id, or 404
get_sermon(rows, source_id, sermon_id) ==
    LET data_index == DataIndex(rows) IN
    IF source_id \notin DOMAIN data_index
    THEN [status |-> 404, json |-> NoneObj]
    ELSE LET sermons == data_index[source_id].sermons
             hits == { k \in 1..Len(sermons) : sermons[k].id = sermon_id }
         IN IF hits = {}
            THEN [status |-> 404, json |-> NoneObj]
            ELSE [status |-> 200,
                  json |-> sermons[CHOOSE k \in hits : \A h \in hits : k <= h]]

\* the ids a client asks for
SourceIds == { DescC.id, DescCD.id, << "x" >> }
SermonIds == { << "a" >>, << "c", "_", "a" >> }

\* GET /api/<source_id>/<sermon_id>
GetSermon ==
    /\ pc = "serving"
    /\ \E source_id \in SourceIds, sermon_id \in SermonIds :
          http' = get_sermon(data, source_id, sermon_id)
    /\ UNCHANGED << pc, descriptors, src_i, toolbox_files_urls, listing_status, listing,
                    elem_i, results, result, data, log, tbVars, pxVars, giVars, gtVars >>

Next ==
    \/ NextSource
    \/ GetToolboxFilenames
    \/ ListDocuments
    \/ ProcessElem
    \/ SourceReturn
    \/ LoadDataReturn
    \/ GetSermon

Spec == Init /\ [][Next]_vars

----------------------------------------------------------------------------
(* Claims about load_data and load_source, checked under Spec *)

\* the process has ended: sys.exit(1), or an uncaught exception
Terminated == pc \in { "exited", "crashed" }

\* load_source's loop has run over the whole listing and is about to return
LoopDone == pc = "for_elem" /\ elem_i > Len(listing)

\* C1: whenever the document-repository listing request returns a status
\* other than 200, whatever the body, the process terminates before
\* load_data returns, so no catalog is built and served.  (The formula
\* takes an uncaught exception for a termination too.)
C1_FailedListingStopsStartup ==
    (\E i \in 1..Len(listing_status) : listing_status[i] # 200) => Terminated

\* C3: during ingestion the only outcome that stops startup is a
\* non-success status of the document-repository listing; every other
\* failure is handled where it occurs and the load runs on.
C3_OnlyFailedListingStopsStartup ==
    Terminated =>
        /\ Len(listing_status) = src_i
        /\ src_i > 0
        /\ listing_status[src_i] # 200

\* parse_xml gave a record for the row's document
Parsed(row) == parse_xml(row.download_url).value # NoneObj

\* the entries the claim names: the name ends with .xml, parse_xml gave a record
NamedDotXml(row) == EndsWith(row.name, DotXml) /\ Parsed(row)

\* the fields of an Item that come from the listing row alone
ItemOfRow(row) ==
    DictMerge([id |-> Replace(row.name, DotXml, << >>),
               title |-> get_id_from_name(row.name, Repo(descriptors[src_i]))],
              parse_xml(row.download_url).value)
ItemCore(item) ==
    [k \in { "id", "title", "firstPage", "lastPage", "text" } |-> item[k]]

\* C4: the item sequence load_source returns is exactly the listed entries
\* whose name ends with .xml and for which parse_xml returned a record, one
\* Item per such entry, in listing order.
C4_ItemsAreTheParsedDotXmlEntries ==
    LoopDone =>
        LET named == SelectSeq(listing, NamedDotXml) IN
        /\ Len(results) = Len(named)
        /\ \A k \in 1..Len(results) : ItemCore(results[k]) = ItemOfRow(named[k])

\* the rows load_source has appended an Item for, among the first n
Appended(row) == IsListedDocument(row) /\ Parsed(row)
AppendedRows(n) == SelectSeq(SubSeq(listing, 1, n), Appended)

\* results[k] is the Item of the k-th appended row
ResultsFollowRows ==
    LET rows == AppendedRows(elem_i - 1) IN
    /\ Len(results) = Len(rows)
    /\ \A k \in 1..Len(results) : ItemCore(results[k]) = ItemOfRow(rows[k])

\* the document name has no annotation file in the annotation listing
NoAnnotationFile(row) ==
    Replace(row.name, DotXml, DotTxt) \notin DOMAIN toolbox_files_urls

\* C5: an Item whose document name has no matching annotation file in the
\* annotation listing (the name with .xml replaced by .txt is not a key of
\* it) has no morph key at all.
C5_NoAnnotationFileNoMorphKey ==
    pc = "for_elem" =>
        /\ ResultsFollowRows
        /\ \A k \in 1..Len(results) :
               NoAnnotationFile(AppendedRows(elem_i - 1)[k]) =>
                   "morph" \notin DOMAIN results[k]

\* a finished collection with one Item that has a morph mapping and one
\* Item without annotation file and without morph key
C5_Witness ==
    /\ LoopDone
    /\ \E k \in 1..Len(results) : \E h \in 1..Len(results) :
          /\ "morph" \in DOMAIN results[k]
          /\ results[k].morph # EmptyDict
          /\ NoAnnotationFile(AppendedRows(elem_i - 1)[h])
          /\ "morph" \notin DOMAIN results[h]

\* the filename with its extension stripped: what precedes the last dot
StripExtension(name) ==
    IF Contains(name, ".")
    THEN SubSeq(name, 1, (CHOOSE i \in 1..Len(name) :
                              name[i] = "." /\ \A j \in (i + 1)..Len(name) : name[j] # ".") - 1)
    ELSE name

\* C9: for every document listing whose entry names are pairwise distinct,
\* the Items load_source produces have pairwise distinct ids, each id being
\* the entry's filename with its extension stripped, so that get_sermon
\* reaches every Item of the collection.
C9_DistinctNamesDistinctIds ==
    (/\ LoopDone
     /\ \A i \in 1..Len(listing) : \A j \in 1..Len(listing) :
            i # j => listing[i].name # listing[j].name) =>
        LET rows == AppendedRows(Len(listing))
            collection == [metadata |-> descriptors[src_i], sermons |-> results]
        IN /\ \A k \in 1..Len(results) : results[k].id = StripExtension(rows[k].name)
           /\ \A k \in 1..Len(results) : \A h \in 1..Len(results) :
                  k # h => results[k].id # results[h].id
           /\ \A k \in 1..Len(results) :
                  get_sermon(<< collection >>, collection.metadata.id, results[k].id).json
                      = results[k]

----------------------------------------------------------------------------
(* Claims about load_toolbox, checked under SpecToolbox *)

\* the marker and the value of a marker line
MarkerOf(raw) == SplitMarker(Strip(raw))
ValueOf(raw) == SplitValue(Strip(raw))
IsRefLine(raw) == IsMarkerLine(Strip(raw)) /\ MarkerOf(raw) = RefMarker
IsOtherMarkerLine(raw) == IsMarkerLine(Strip(raw)) /\ MarkerOf(raw) # RefMarker
IsBlankLine(raw) == Strip(raw) = << >>

\* ls[j] is a \ref line, ls[j+1..k-1] are other marker lines (at least
\* one), ls[k] is a blank line
RefBlockThenBlank(ls, j, k) ==
    /\ j + 1 < k
    /\ IsRefLine(ls[j])
    /\ \A i \in (j + 1)..(k - 1) : IsOtherMarkerLine(ls[i])
    /\ IsBlankLine(ls[k])

\* the value of the last line of ls[j..k] that carries marker m
LastValue(ls, j, k, m) ==
    LET last == CHOOSE i \in j..k :
                    /\ MarkerOf(ls[i]) = m
                    /\ \A h \in (i + 1)..k : MarkerOf(ls[h]) # m
    IN ValueOf(ls[last])

\* C6: for every toolbox input in which a \ref line is followed immediately
\* by other marker lines and then a blank line, the mapping load_toolbox
\* returns has a record under that ref id, and the record holds every
\* marker/value pair of the block, the last value winning when a marker
\* repeats.
C6_RefBlockRecorded ==
    tb_pc = "returned" =>
        \A j \in 1..Len(lines) : \A k \in 1..Len(lines) :
            RefBlockThenBlank(lines, j, k) =>
                LET r == ValueOf(lines[j]) IN
                /\ r \in DOMAIN morph_info
                /\ \A i \in j..(k - 1) :
                       /\ MarkerOf(lines[i]) \in DOMAIN morph_info[r]
                       /\ morph_info[r][MarkerOf(lines[i])]
                              = LastValue(lines, j, k - 1, MarkerOf(lines[i]))

\* ls[j] is a \ref line and ls[j+1..k] are other marker lines (none allowed)
RefBlock(ls, j, k) ==
    /\ j <= k
    /\ IsRefLine(ls[j])
    /\ \A i \in (j + 1)..k : IsOtherMarkerLine(ls[i])

\* the file is two \ref blocks with distinct ref ids, one blank line between
TwoRefBlocks(ls) ==
    \E b \in 2..(Len(ls) - 1) :
        /\ IsBlankLine(ls[b])
        /\ RefBlock(ls, 1, b - 1)
        /\ RefBlock(ls, b + 1, Len(ls))
        /\ ValueOf(ls[1]) # ValueOf(ls[b + 1])

\* C7: for every annotation file made of two \ref blocks with distinct ref
\* ids separated by a blank line, the morph mapping load_toolbox returns has
\* exactly two top-level keys.
C7_TwoBlocksTwoKeys ==
    (tb_pc = "returned" /\ TwoRefBlocks(lines)) => Cardinality(DOMAIN morph_info) = 2

====
